---- MODULE Spec2Model ----
(***************************************************************************)
(* Lazy TikTok embed hydration of the microsite, in its four variants:     *)
(*   "part_002"  class TikTokEmbed + setupLazyLoading (load/unload/error)  *)
(*   "part_000"  class TikTokEmbed + setupTikTokEmbeds (App orchestrator)  *)
(*   "app"       initTikTok / hydrateTikTok / buildIframe of app.js        *)
(*   "card"      the #tiktok-card IIFE of app.js                           *)
(* A page runs one variant; `script` says which.  URLs are sequences of    *)
(* tokens: "/" and "?" are the separators the code splits on, "video" is   *)
(* the literal the regular expression looks for, a digit token stands for  *)
(* a run of decimal digits, every other token is text without separators.  *)
(* The same module holds the other parts of the page the properties are    *)
(* about, each with a specification of its own over the same variables:    *)
(* DependencyManager (DepSpec), the orchestrator and LoaderManager         *)
(* (OrchSpec), AudioEngine and the music toggle (AudioSpec), the anxiety   *)
(* chart of ChartManager (ChartSpec) and the play/pause observer of        *)
(* hydrateTikTok (PlaySpec).                                               *)
(***************************************************************************)
EXTENDS Integers, Sequences, FiniteSets, TLC

VARIABLES
    script,         \* which variant the page loads
    url,            \* card -> data-tiktok-url attribute (Absent when missing)
    supportsIO,     \* 'IntersectionObserver' in window
    prefersReduced, \* matchMedia('(prefers-reduced-motion: reduce)').matches
    inPressCard,    \* the containers sit inside a .press-card element
    embeds,         \* the TikTokEmbed instances, in creation order
    tiktokEmbed,    \* card -> container.__tiktokEmbed (0: undefined)
    observers,      \* card -> number of page observers observing the container
    timers,         \* embeds with a pending setTimeout(() => embed.load(), 1000)
    iframes,        \* the iframe elements still attached or referenced: id -> element
    poster,         \* card -> "shown" | "hidden" | "none": the .ttk__poster button
    frame,          \* card -> the iframes attached inside the container
    fallback,       \* card -> the fallback markup the container shows
    handlers,       \* card -> click listeners on the poster button now in the DOM
    hydrated,       \* state.hydratedTikToks / el.dataset.hydrated
    uncaught,       \* sites whose exception reached the event loop or the caller
    setups,         \* how many times the variant's setup function has run
    libs,           \* the required libraries that window defines
    clock,          \* time since waitForDependencies(), in poll intervals
    promise,        \* "idle" | "pending" | "resolved" | "rejected"
    checkInterval,  \* the setInterval of waitForDependencies is active
    timeout,        \* the setTimeout of waitForDependencies is pending
    phase,          \* where the orchestrator's init() is, or how it ended
    modulesInit,    \* the modules whose init() has been called
    currentProgress, \* LoaderManager.currentProgress
    loaderInterval, \* the setInterval of LoaderManager.start is active
    hideTimers,     \* pending setTimeout(() => loader.classList.add('hidden'))
    loaderHidden,   \* the #loader element has the class hidden
    completes,      \* how many times LoaderManager.complete() has run
    audioStarted,   \* AudioEngine.audioStarted
    musicEnabled,   \* AudioEngine.musicEnabled
    initAudioRuns,  \* how many times AudioEngine.initAudio() has run
    calls,          \* the music-toggle click handlers, in click order
    ariaPressed,    \* aria-pressed of #music-toggle
    label,          \* text of .music-toggle-text
    chartReady,     \* ChartManager.initAnxietyChart() has run
    activeMetrics,  \* ChartManager.activeMetrics: metric -> flag
    metricPressed,  \* metric -> aria-pressed of its button is 'true'
    metricActive,   \* metric -> its button has the class active
    plotted,        \* the traces of the last Plotly.newPlot('anxiety-chart')
    rafQueue,       \* requestAnimationFrame callbacks not yet run, in order
    seen            \* card -> what its iframe's observer reported last

const == <<script, url, supportsIO, prefersReduced, inPressCard>>
depVars == <<libs, clock, promise, checkInterval, timeout>>
orchVars == <<phase, modulesInit, currentProgress, loaderInterval, hideTimers,
              loaderHidden, completes>>
audioVars == <<audioStarted, musicEnabled, initAudioRuns, calls, ariaPressed, label>>
chartVars == <<chartReady, activeMetrics, metricPressed, metricActive, plotted>>
playVars == <<rafQueue, seen>>
pageVars == <<audioVars, chartVars, playVars>>
vars == <<script, url, supportsIO, prefersReduced, inPressCard, embeds,
          tiktokEmbed, observers, timers, iframes, poster, frame, fallback,
          handlers, hydrated, uncaught, setups, libs, clock, promise,
          checkInterval, timeout, phase, modulesInit, currentProgress,
          loaderInterval, hideTimers, loaderHidden, completes, audioStarted,
          musicEnabled, initAudioRuns, calls, ariaPressed, label, chartReady,
          activeMetrics, metricPressed, metricActive, plotted, rafQueue, seen>>

\* ------------------------------------------------------------------ bounds
NumCards == 2
MaxSetups == 2
MaxReloads == 1

Cards == 1..NumCards
\* every hydrator's first load, plus the reloads that follow an unload()
MaxIframes == MaxSetups * NumCards + MaxReloads

Scripts == {"part_002", "part_000", "app", "card"}

\* ------------------------------------------------------------------- URLs
Digits == {"7"}
Absent == <<"undefined">>
Profile == <<"https:", "/", "/", "www.tiktok.com", "/", "@u", "/">>
UrlVideo == Profile \o <<"video", "/", "7">>
UrlQuery == UrlVideo \o <<"?", "lang=en">>
UrlSlash == UrlVideo \o <<"/">>
UrlNotAUrl == <<"not-a-url">>
UrlEmpty == <<>>
SourceUrls == {Absent, UrlVideo, UrlQuery, UrlSlash, UrlNotAUrl, UrlEmpty}

\* s.split(sep).pop(): what follows the last separator
AfterLast(s, sep) ==
    LET I == {i \in 1..Len(s) : s[i] = sep}
    IN IF I = {} THEN s
       ELSE SubSeq(s, (CHOOSE i \in I : \A j \in I : j <= i) + 1, Len(s))

\* s.split(sep)[0]: what precedes the first separator
BeforeFirst(s, sep) ==
    LET I == {i \in 1..Len(s) : s[i] = sep}
    IN IF I = {} THEN s
       ELSE SubSeq(s, 1, (CHOOSE i \in I : \A j \in I : i <= j) - 1)

\* this.url.split('/').shift().split('?')[0]: the first segment for the last
SplitShiftId(u) == BeforeFirst(BeforeFirst(u, "/"), "?")

\* this.url.split('/').pop().split('?')[0]
SplitPopId(u) == BeforeFirst(AfterLast(u, "/"), "?")

\* the longest run of digit tokens of u from position i on
RECURSIVE DigitRun(_, _)
DigitRun(u, i) ==
    IF i <= Len(u) /\ u[i] \in Digits THEN <<u[i]>> \o DigitRun(u, i + 1) ELSE <<>>

\* (url.match(/video\/(\d+)/) || [])[1]; <<>> stands for no match
MatchVideoId(u) ==
    LET I == {i \in 1..Len(u) :
                /\ i + 2 <= Len(u)
                /\ u[i] = "video" /\ u[i + 1] = "/" /\ u[i + 2] \in Digits}
    IN IF I = {} THEN <<>>
       ELSE DigitRun(u, (CHOOSE i \in I : \A j \in I : i <= j) + 2)

EmbedBase == <<"https:", "/", "/", "www.tiktok.com", "/", "embed", "/", "v2", "/">>

\* new URL(`https://www.tiktok.com/embed/v2/${videoId}`) + searchParams
EmbedUrl(videoId) ==
    EmbedBase \o videoId \o
      <<"?", IF script = "part_002"
                THEN "autoplay=1&muted=1&controls=1&rel=0&loop=0"
                ELSE "autoplay=1&muted=1">>

\* `https://www.tiktok.com/embed/v2/${videoId}` of the #tiktok-card hydrate
CardEmbedUrl(videoId) == EmbedBase \o videoId

\* the url of buildIframe
BuildIframeUrl(videoId) ==
    EmbedBase \o <<"video", "/">> \o videoId \o
      <<"?", "lang=en-US&autoplay=1&controls=1&muted=1">>

\* --------------------------------------------------------- the page state
\* document.createElement('iframe') returns a new element each time: an iframe
\* is named by who created it (a hydrator, or a card in app.js) and by the
\* count of iframes that creator has made.  Null is this.iframe = null.
Null == <<0, 0>>
Element(src, armed) == [src |-> src, armed |-> armed]

NoFallback == [kind |-> "none", href |-> <<>>]
TextFallback == [kind |-> "text", href |-> <<>>]
LinkFallback(u) == [kind |-> "link", href |-> u]

\* The mutable state as one record, so that a handler is a function on it;
\* thrown says that the code running has raised an exception nobody caught yet.
Cur ==
    [embeds |-> embeds, tiktokEmbed |-> tiktokEmbed, observers |-> observers,
     timers |-> timers, iframes |-> iframes, poster |-> poster, frame |-> frame,
     fallback |-> fallback, handlers |-> handlers, hydrated |-> hydrated,
     uncaught |-> uncaught, setups |-> setups, thrown |-> FALSE]

\* the iframes the page still holds: attached, or referenced by a hydrator
Reachable(S) ==
    UNION {S.frame[c] : c \in Cards}
      \cup ({S.embeds[e].iframe : e \in 1..Len(S.embeds)} \ {Null})

CommitEmbeds(S) ==
    /\ embeds' = S.embeds
    /\ tiktokEmbed' = S.tiktokEmbed
    /\ observers' = S.observers
    /\ timers' = S.timers
    /\ iframes' = [i \in Reachable(S) \cap DOMAIN S.iframes |-> S.iframes[i]]
    /\ poster' = S.poster
    /\ frame' = S.frame
    /\ fallback' = S.fallback
    /\ handlers' = S.handlers
    /\ hydrated' = S.hydrated
    /\ uncaught' = S.uncaught
    /\ setups' = S.setups
    /\ UNCHANGED const

Commit(S) == CommitEmbeds(S) /\ UNCHANGED <<depVars, orchVars, pageVars>>

Throw(S) == [S EXCEPT !.thrown = TRUE]

\* an exception that leaves a handler is reported and the page goes on
Catch(S, site) ==
    IF S.thrown THEN [S EXCEPT !.thrown = FALSE, !.uncaught = @ \cup {site}] ELSE S

\* ------------------------------------------------- class TikTokEmbed
\* constructor + init(): the click listener goes on the poster button, if any
NewEmbed(S, c) ==
    LET S1 == [S EXCEPT !.embeds = Append(@, [container |-> c, isLoaded |-> FALSE,
                                               iframe |-> Null, made |-> 0])]
    IN IF S.poster[c] # "none"
          THEN [S1 EXCEPT !.handlers[c] = Append(@, Len(S1.embeds))]
          ELSE S1

\* load()
LoadOp(S, e) ==
    LET c == S.embeds[e].container
        videoId == SplitPopId(url[c])
        id == <<e, S.embeds[e].made + 1>>
    IN IF S.embeds[e].isLoaded THEN S
       ELSE IF url[c] = Absent THEN Throw(S)    \* undefined.split: TypeError
       ELSE IF videoId = <<>> THEN S             \* console.warn; return
       ELSE [S EXCEPT
               !.iframes = (id :> Element(EmbedUrl(videoId), TRUE)) @@ @,
               !.embeds[e].iframe = id,
               !.embeds[e].made = @ + 1,
               !.poster[c] = "none",
               !.handlers[c] = <<>>,
               !.fallback[c] = NoFallback,
               !.frame[c] = {id},
               !.embeds[e].isLoaded = TRUE]

\* unload() without its closing `this.init();`
UnloadOpNoInit(S, e) ==
    LET c == S.embeds[e].container
        i == S.embeds[e].iframe
        S1 == IF i # Null
                 THEN [S EXCEPT !.iframes[i].src = <<>>, !.embeds[e].iframe = Null]
                 ELSE S
    IN IF ~S.embeds[e].isLoaded THEN S
       ELSE [S1 EXCEPT
               !.frame[c] = {},
               !.fallback[c] = NoFallback,
               !.poster[c] = "shown",
               !.embeds[e].isLoaded = FALSE,
               !.handlers[c] = <<>>]

\* unload() without its `this.isLoaded = false;`
UnloadOpKeepsLoaded(S, e) ==
    LET c == S.embeds[e].container
        i == S.embeds[e].iframe
        S1 == IF i # Null
                 THEN [S EXCEPT !.iframes[i].src = <<>>, !.embeds[e].iframe = Null]
                 ELSE S
    IN IF ~S.embeds[e].isLoaded THEN S
       ELSE [S1 EXCEPT
               !.frame[c] = {},
               !.fallback[c] = NoFallback,
               !.poster[c] = "shown",
               !.handlers[c] = <<e>>]

\* unload(), of part_002 only; its init() binds the restored poster
UnloadOp(S, e) ==
    LET c == S.embeds[e].container
        i == S.embeds[e].iframe
        S1 == IF i # Null
                 THEN [S EXCEPT !.iframes[i].src = <<>>, !.embeds[e].iframe = Null]
                 ELSE S
    IN IF ~S.embeds[e].isLoaded THEN S
       ELSE [S1 EXCEPT
               !.frame[c] = {},
               !.fallback[c] = NoFallback,
               !.poster[c] = "shown",
               !.embeds[e].isLoaded = FALSE,
               !.handlers[c] = <<e>>]

\* handleLoadError(); part_002 first looks up the enclosing .press-card
HandleLoadError(S, e) ==
    LET c == S.embeds[e].container
    IN IF script = "part_002" /\ ~inPressCard
          THEN Throw(S)                           \* null.querySelector: TypeError
          ELSE [S EXCEPT
                  !.frame[c] = {},
                  !.poster[c] = "none",
                  !.handlers[c] = <<>>,
                  !.fallback[c] = LinkFallback(url[c])]

\* ----------------------------------------------------- app.js, hydrateTikTok
HydrateTikTok(S, c) ==
    LET u == IF url[c] = Absent THEN <<>> ELSE url[c]
        vid == MatchVideoId(u)
        S1 == [S EXCEPT !.hydrated = @ \cup {c}]
        S2 == [S1 EXCEPT
                 !.poster[c] = "hidden",
                 !.iframes = (<<c, 1>> :> Element(BuildIframeUrl(vid), FALSE)) @@ @,
                 !.frame[c] = @ \cup {<<c, 1>>}]
    IN IF c \in S.hydrated THEN S
       ELSE IF S.poster[c] = "none" THEN Throw(S1) \* posterImg is null: TypeError
       ELSE IF vid = <<>> THEN [S1 EXCEPT !.fallback[c] = LinkFallback(u)]
       ELSE IF ~supportsIO THEN Throw(S2)          \* new IntersectionObserver
       ELSE S2

\* ------------------------------------------------ app.js, #tiktok-card IIFE
\* hydrate(): the iframe is built and never attached to the element
CardHydrate(S) ==
    IF 1 \in S.hydrated THEN S
    ELSE [S EXCEPT
            !.hydrated = @ \cup {1},
            !.iframes = (<<1, 1>> :> Element(CardEmbedUrl(MatchVideoId(url[1])),
                                             TRUE)) @@ @]

\* iframe.onerror of the #tiktok-card hydrate
CardOnError(S) ==
    [S EXCEPT !.frame[1] = {}, !.poster[1] = "none", !.handlers[1] = <<>>,
              !.fallback[1] = TextFallback]

\* ------------------------------------------------------------ the setups
\* containers.forEach(container => { const embed = new TikTokEmbed(container); ... })
RECURSIVE ForEachContainer(_, _, _)
ForEachContainer(S, c, mode) ==
    IF c > NumCards THEN S
    ELSE LET S1 == NewEmbed(S, c)
             id == Len(S1.embeds)
             S2 == CASE mode = "init" -> S1
                      [] mode = "observe" ->
                           [S1 EXCEPT !.tiktokEmbed[c] = id, !.observers[c] = @ + 1]
                      [] mode = "timer" -> [S1 EXCEPT !.timers = @ \cup {id}]
         IN ForEachContainer(S2, c + 1, mode)

\* setupLazyLoading() whose branch for browsers without IntersectionObserver
\* constructs the hydrators and sets no timer
SetupLazyLoadingNoTimer(S) ==
    LET mode == IF prefersReduced THEN "init"
                ELSE IF supportsIO THEN "observe" ELSE "init"
    IN [ForEachContainer(S, 1, mode) EXCEPT !.setups = @ + 1]

\* part_002: setupLazyLoading(), at DOMContentLoaded and at every pageshow
\* with event.persisted
SetupLazyLoadingOp(S) ==
    LET mode == IF prefersReduced THEN "init"
                ELSE IF supportsIO THEN "observe" ELSE "timer"
    IN [ForEachContainer(S, 1, mode) EXCEPT !.setups = @ + 1]

\* part_000: setupTikTokEmbeds(), once, from App.init
SetupTikTokEmbedsOp(S) ==
    IF prefersReduced \/ ~supportsIO
       THEN [ForEachContainer(S, 1, "init") EXCEPT !.setups = @ + 1]
       ELSE [S EXCEPT !.observers = [c \in Cards |-> 1], !.setups = @ + 1]

\* app.js: initTikTok(), at DOMContentLoaded
RECURSIVE BindPosters(_, _)
BindPosters(S, c) ==
    IF c > NumCards THEN S
    ELSE IF S.poster[c] = "none" THEN Throw(S)  \* posterBtn is null: TypeError
    ELSE BindPosters([S EXCEPT !.handlers[c] = Append(@, c)], c + 1)

InitTikTokOp(S) ==
    LET S1 == BindPosters([S EXCEPT !.setups = @ + 1], 1)
    IN IF S1.thrown THEN S1
       ELSE IF ~supportsIO THEN Throw(S1)       \* IntersectionObserver undefined
       ELSE [S1 EXCEPT !.observers = [c \in Cards |-> 1]]

\* app.js: the #tiktok-card IIFE, at script load; the element is card 1
CardSetupOp(S) ==
    LET u == IF url[1] = Absent THEN <<>> ELSE url[1]
        S1 == [S EXCEPT !.setups = @ + 1]
    IN IF MatchVideoId(u) = <<>> THEN S1
       ELSE IF ~supportsIO THEN CardHydrate(S1)
       ELSE [S1 EXCEPT !.observers[1] = 1]

SetupOp(S) ==
    CASE script = "part_002" -> SetupLazyLoadingOp(S)
      [] script = "part_000" -> SetupTikTokEmbedsOp(S)
      [] script = "app" -> Catch(InitTikTokOp(S), "initTikTok")
      [] script = "card" -> CardSetupOp(S)

\* --------------------------------------------------- the observer callbacks
\* A callback gets a batch of entries: b maps each target of the batch to its
\* isIntersecting, and the entries come in document order.
Batches == UNION {[T -> BOOLEAN] : T \in SUBSET Cards \ {{}}}

\* the entry of a batch with part_002's `// embed.unload();` uncommented
EntryOpUnloads(S, c, isIntersecting) ==
    CASE script = "part_002" ->
           IF isIntersecting
              THEN IF ~S.embeds[S.tiktokEmbed[c]].isLoaded
                      THEN LoadOp(S, S.tiktokEmbed[c])
                      ELSE S
              ELSE IF S.embeds[S.tiktokEmbed[c]].isLoaded
                      THEN UnloadOp(S, S.tiktokEmbed[c])
                      ELSE S
      [] script = "part_000" ->
           IF isIntersecting /\ S.tiktokEmbed[c] = 0
              THEN LET S1 == NewEmbed(S, c)
                   IN [S1 EXCEPT !.tiktokEmbed[c] = Len(S1.embeds),
                                 !.observers[c] = 0]
              ELSE S
      [] script = "app" ->
           IF isIntersecting /\ ~prefersReduced THEN HydrateTikTok(S, c) ELSE S
      [] script = "card" ->
           IF isIntersecting \/ prefersReduced
              THEN [CardHydrate(S) EXCEPT !.observers[1] = 0]
              ELSE S

\* the entry of a batch where part_000 leaves out observer.unobserve(entry.target)
EntryOpKeepsObserving(S, c, isIntersecting) ==
    CASE script = "part_002" ->
           IF isIntersecting /\ ~S.embeds[S.tiktokEmbed[c]].isLoaded
              THEN LoadOp(S, S.tiktokEmbed[c])
              ELSE S
      [] script = "part_000" ->
           IF isIntersecting /\ S.tiktokEmbed[c] = 0
              THEN LET S1 == NewEmbed(S, c)
                   IN [S1 EXCEPT !.tiktokEmbed[c] = Len(S1.embeds)]
              ELSE S
      [] script = "app" ->
           IF isIntersecting /\ ~prefersReduced THEN HydrateTikTok(S, c) ELSE S
      [] script = "card" ->
           IF isIntersecting \/ prefersReduced
              THEN [CardHydrate(S) EXCEPT !.observers[1] = 0]
              ELSE S

\* one entry of a batch; an exception leaves thrown set, and the loop with it
EntryOp(S, c, isIntersecting) ==
    CASE script = "part_002" ->
           IF isIntersecting /\ ~S.embeds[S.tiktokEmbed[c]].isLoaded
              THEN LoadOp(S, S.tiktokEmbed[c])
              ELSE S
      [] script = "part_000" ->
           IF isIntersecting /\ S.tiktokEmbed[c] = 0
              THEN LET S1 == NewEmbed(S, c)
                   IN [S1 EXCEPT !.tiktokEmbed[c] = Len(S1.embeds),
                                 !.observers[c] = 0]
              ELSE S
      [] script = "app" ->
           IF isIntersecting /\ ~prefersReduced THEN HydrateTikTok(S, c) ELSE S
      [] script = "card" ->
           IF isIntersecting \/ prefersReduced
              THEN [CardHydrate(S) EXCEPT !.observers[1] = 0]
              ELSE S

\* entries.forEach / for (const e of entries), from card c on
RECURSIVE ForEachEntry(_, _, _)
ForEachEntry(S, b, c) ==
    IF c > NumCards \/ S.thrown THEN S
    ELSE IF c \notin DOMAIN b THEN ForEachEntry(S, b, c + 1)
    ELSE LET S1 == EntryOp(S, c, b[c])
         IN IF script = "card" /\ S1.observers[1] = 0 THEN S1   \* break
            ELSE ForEachEntry(S1, b, c + 1)

CallbackOp(S, b) ==
    Catch(ForEachEntry(S, b, 1), IF script = "app" THEN "hydrateTikTok" ELSE "load")

\* ------------------------------------------------------------ click, error
\* the listeners of the poster button, in the order they were added
RECURSIVE Dispatch(_, _, _)
Dispatch(S, c, hs) ==
    IF hs = <<>> THEN S
    ELSE LET S1 == IF script = "app"
                      THEN Catch(HydrateTikTok(S, c), "hydrateTikTok")
                      ELSE Catch(LoadOp(S, Head(hs)), "load")
         IN Dispatch(S1, c, Tail(hs))

ClickOp(S, c) == Dispatch(S, c, S.handlers[c])

\* the iframe's error event; the listener is { once: true } and closes over
\* the hydrator that created the iframe
ErrorOp(S, i) ==
    LET S1 == [S EXCEPT !.iframes[i].armed = FALSE]
    IN IF script = "card" THEN CardOnError(S1)
       ELSE Catch(HandleLoadError(S1, i[1]), "handleLoadError")

\* ------------------------------------------------------------------ actions
Attached(i) == \E c \in Cards : i \in frame[c]

\* the number of hydrators that are not loaded
Unloaded == Cardinality({e \in 1..Len(embeds) : ~embeds[e].isLoaded})

\* the number of iframes the hydrators have created
RECURSIVE Made(_)
Made(n) == IF n = 0 THEN 0 ELSE embeds[n].made + Made(n - 1)

Init ==
    /\ script \in Scripts
    /\ url \in [Cards -> SourceUrls]
    /\ supportsIO \in BOOLEAN
    /\ prefersReduced \in BOOLEAN
    /\ inPressCard \in (IF script = "part_002" THEN BOOLEAN ELSE {TRUE})
    /\ poster \in [Cards -> {"shown", "none"}]
    /\ embeds = <<>>
    /\ tiktokEmbed = [c \in Cards |-> 0]
    /\ observers = [c \in Cards |-> 0]
    /\ timers = {}
    /\ iframes = [i \in {} |-> Element(<<>>, FALSE)]
    /\ frame = [c \in Cards |-> {}]
    /\ fallback = [c \in Cards |-> NoFallback]
    /\ handlers = [c \in Cards |-> <<>>]
    /\ hydrated = {}
    /\ uncaught = {}
    /\ setups = 0
    /\ libs = {}
    /\ clock = 0
    /\ promise = "idle"
    /\ checkInterval = FALSE
    /\ timeout = FALSE
    /\ phase = "boot"
    /\ modulesInit = {}
    /\ currentProgress = 0
    /\ loaderInterval = FALSE
    /\ hideTimers = 0
    /\ loaderHidden = FALSE
    /\ completes = 0
    /\ audioStarted = FALSE
    /\ musicEnabled = FALSE
    /\ initAudioRuns = 0
    /\ calls = <<>>
    /\ ariaPressed = "false"
    /\ label = "Music Off"
    /\ chartReady = FALSE
    /\ activeMetrics = <<>>
    /\ metricPressed = <<>>
    /\ metricActive = <<>>
    /\ plotted = <<>>
    /\ rafQueue = <<>>
    /\ seen = [c \in Cards |-> "none"]

\* DOMContentLoaded, or the script's load; in part_002 also pageshow
Setup ==
    /\ setups < (IF script = "part_002" THEN MaxSetups ELSE 1)
    /\ Commit(SetupOp(Cur))

ObserverCallback(b) ==
    /\ \A c \in DOMAIN b : observers[c] > 0
    /\ Commit(CallbackOp(Cur, b))

PosterClick(c) ==
    /\ poster[c] = "shown"
    /\ handlers[c] # <<>>
    /\ Commit(ClickOp(Cur, c))

TimerFire(e) ==
    /\ e \in timers
    /\ Commit(Catch(LoadOp([Cur EXCEPT !.timers = @ \ {e}], e), "load"))

IframeError(i) ==
    /\ Attached(i)
    /\ iframes[i].armed
    /\ Commit(ErrorOp(Cur, i))

\* load() and unload() called on a hydrator from outside the lifecycle code
CallLoad(e) ==
    /\ script \in {"part_002", "part_000"}
    /\ Commit(Catch(LoadOp(Cur, e), "load"))

CallUnload(e) ==
    /\ script = "part_002"
    /\ Made(Len(embeds)) + Unloaded + (MaxSetups - setups) * NumCards < MaxIframes
    /\ Commit(UnloadOp(Cur, e))

Next ==
    \/ Setup
    \/ \E b \in Batches : ObserverCallback(b)
    \/ \E c \in Cards : PosterClick(c)
    \/ \E e \in 1..Len(embeds) : TimerFire(e)
    \/ \E i \in DOMAIN iframes : IframeError(i)
    \/ \E e \in 1..Len(embeds) : CallLoad(e)
    \/ \E e \in 1..Len(embeds) : CallUnload(e)

Spec == Init /\ [][Next]_vars

\* A page of part_002 in a browser without IntersectionObserver: no observer is
\* ever created, so no visibility callback is among its steps.  The setup runs
\* once the document is ready and the timers of the page run; clicks, pageshow
\* and calls from outside are up to the user.
TimerInit == Init /\ script = "part_002" /\ ~supportsIO

TimerNext ==
    \/ Setup
    \/ \E c \in Cards : PosterClick(c)
    \/ \E e \in 1..Len(embeds) : TimerFire(e)
    \/ \E i \in DOMAIN iframes : IframeError(i)
    \/ \E e \in 1..Len(embeds) : CallLoad(e)
    \/ \E e \in 1..Len(embeds) : CallUnload(e)

\* Weak fairness of the timer steps, written out: WF_vars(A) is
\* []<>~ENABLED <<A>>_vars \/ []<><<A>>_vars, and a timer step is possible
\* exactly when a timer is pending (it always takes its timer out of timers).
TimersRun ==
    \/ []<>(timers = {})
    \/ []<><<\E e \in 1..Len(embeds) : TimerFire(e)>>_vars

TimerSpec ==
    /\ TimerInit
    /\ [][TimerNext]_vars
    /\ WF_vars(setups = 0 /\ Setup)
    /\ TimersRun

\* ------------------------------------------------- class DependencyManager
\* this.required
Required == {"Plotly", "gsap", "THREE", "Tone"}

\* setTimeout(..., 10000) and setInterval(..., 100), in milliseconds
TimeoutMs == 10000
IntervalMs == 100

\* this.required.every(lib => window[lib] !== undefined)
AllLoaded == Required \subseteq libs

embedVars == <<script, url, supportsIO, prefersReduced, inPressCard, embeds,
               tiktokEmbed, observers, timers, iframes, poster, frame, fallback,
               handlers, hydrated, uncaught, setups>>

\* waitForDependencies(): the executor sets the timeout, then the interval
WaitForDependencies ==
    /\ promise = "idle"
    /\ promise' = "pending"
    /\ timeout' = TRUE
    /\ checkInterval' = TRUE
    /\ clock' = 0
    /\ UNCHANGED <<libs, embedVars, pageVars>>

\* a library's script has run and defined its global
LibraryLoads(lib) ==
    /\ lib \notin libs
    /\ libs' = libs \cup {lib}
    /\ UNCHANGED <<clock, promise, checkInterval, timeout, embedVars, orchVars, pageVars>>

\* the timeout's callback without its reject(): the timer just goes
TimeoutFiresSilently ==
    /\ timeout
    /\ (clock + 1) * IntervalMs >= TimeoutMs
    /\ timeout' = FALSE
    /\ UNCHANGED <<libs, clock, promise, checkInterval, embedVars, orchVars, pageVars>>

\* the timeout's callback, due 10 s after the call and set before the interval:
\* reject() settles the promise unless it is settled; the interval stays
TimeoutFires ==
    /\ timeout
    /\ (clock + 1) * IntervalMs >= TimeoutMs
    /\ timeout' = FALSE
    /\ promise' = IF promise = "pending" THEN "rejected" ELSE promise
    /\ UNCHANGED <<libs, clock, checkInterval, embedVars, orchVars, pageVars>>

\* the interval's callback, every 100 ms; a poll due with the timeout runs
\* after it, and the clock stops once the timeout is gone
Poll ==
    /\ checkInterval
    /\ timeout => (clock + 1) * IntervalMs < TimeoutMs
    /\ clock' = IF timeout THEN clock + 1 ELSE clock
    /\ IF AllLoaded
          THEN /\ checkInterval' = FALSE
               /\ timeout' = FALSE
               /\ promise' = IF promise = "pending" THEN "resolved" ELSE promise
          ELSE UNCHANGED <<checkInterval, timeout, promise>>
    /\ UNCHANGED <<libs, embedVars, orchVars, pageVars>>

\* the page of part_000 while App.init awaits the libraries
DepInit ==
    /\ Init
    /\ script = "part_000"
    /\ url = [c \in Cards |-> UrlVideo]
    /\ poster = [c \in Cards |-> "shown"]
    /\ supportsIO /\ ~prefersReduced

DepNext ==
    \/ WaitForDependencies /\ UNCHANGED orchVars
    \/ \E lib \in Required : LibraryLoads(lib)
    \/ TimeoutFires
    \/ Poll

\* the timers of the page run; whether a library ever loads is up to the network
DepSpec ==
    /\ DepInit
    /\ [][DepNext]_vars
    /\ WF_vars(TimeoutFires)
    /\ WF_vars(Poll)

\* ---------------------------------- LoaderManager and the orchestrator
\* MicrositeApp (app.js) and App (part_000): init() starts the loader, awaits
\* the libraries, calls the modules' init() in order and completes the loader.
\* phase: "boot" before init(), "waiting" at the await, then how init() ended:
\* "initialised", "rejected" (the wait timed out) or "threw" (a module's init()).
Modules ==
    IF script = "app" THEN <<"three", "anim", "charts", "cursor", "ui">>
    ELSE <<"audio", "three", "cursor", "animation", "chart">>

\* Math.random() * 30, the progress a tick of the loader adds
Increments == {10, 25}

\* LoaderManager.complete() that sets no timer to hide the loader
LoaderCompleteNoHide ==
    /\ loaderInterval' = FALSE
    /\ currentProgress' = 100
    /\ completes' = completes + 1
    /\ UNCHANGED <<loaderHidden, hideTimers>>

\* LoaderManager.complete(): clearInterval, progress 100, hide after 500 ms
LoaderComplete ==
    /\ loaderInterval' = FALSE
    /\ currentProgress' = 100
    /\ hideTimers' = hideTimers + 1
    /\ completes' = completes + 1
    /\ UNCHANGED loaderHidden

\* the interval of LoaderManager.start(), every 200 ms
LoaderTick(d) ==
    /\ loaderInterval
    /\ IF currentProgress + d >= 100
          THEN LoaderComplete
          ELSE /\ currentProgress' = currentProgress + d
               /\ UNCHANGED <<loaderInterval, hideTimers, loaderHidden, completes>>
    /\ UNCHANGED <<phase, modulesInit, depVars, embedVars, pageVars>>

\* the timer of complete(): this.loader.classList.add('hidden')
HideFires ==
    /\ hideTimers > 0
    /\ hideTimers' = hideTimers - 1
    /\ loaderHidden' = TRUE
    /\ UNCHANGED <<phase, modulesInit, currentProgress, loaderInterval, completes,
                   depVars, embedVars, pageVars>>

\* init() up to its await: loader.start(), then waitForDependencies()
InitStarts ==
    /\ phase = "boot"
    /\ phase' = "waiting"
    /\ loaderInterval' = TRUE
    /\ WaitForDependencies
    /\ UNCHANGED <<modulesInit, currentProgress, hideTimers, loaderHidden, completes>>

\* init() that goes on to the modules however the wait has settled
InitResumesUnguarded ==
    /\ phase = "waiting"
    /\ promise \in {"resolved", "rejected"}
    /\ modulesInit' = {Modules[k] : k \in 1..Len(Modules)}
    /\ phase' = "initialised"
    /\ LoaderComplete
    /\ UNCHANGED <<depVars, embedVars, pageVars>>

\* init() from its await on: with the wait rejected the catch block completes the
\* loader; else the modules' init() run in order, the t-th throwing (t = 0: none),
\* part_000 sets up the TikTok embeds, and the loader is completed
InitResumes ==
    /\ phase = "waiting"
    /\ promise \in {"resolved", "rejected"}
    /\ IF promise = "rejected"
          THEN /\ phase' = "rejected"
               /\ UNCHANGED <<modulesInit, embedVars>>
          ELSE \E t \in 0..Len(Modules) :
                 IF t = 0
                    THEN /\ modulesInit' = {Modules[k] : k \in 1..Len(Modules)}
                         /\ phase' = "initialised"
                         /\ IF script = "part_000"
                               THEN CommitEmbeds(SetupTikTokEmbedsOp(Cur))
                               ELSE UNCHANGED embedVars
                    ELSE /\ modulesInit' = {Modules[k] : k \in 1..t}
                         /\ phase' = "threw"
                         /\ UNCHANGED embedVars
    /\ LoaderComplete
    /\ UNCHANGED <<depVars, pageVars>>

\* window's error listener of app.js: some script of the page raised an error
\* that nobody caught
WindowError ==
    /\ script = "app"
    /\ ~loaderHidden
    /\ loaderHidden' = TRUE
    /\ UNCHANGED <<phase, modulesInit, currentProgress, loaderInterval, hideTimers,
                   completes, depVars, embedVars, pageVars>>

\* the page of the orchestrator; the embeds are as a well-formed page has them
OrchInit ==
    /\ Init
    /\ script \in {"app", "part_000"}
    /\ url = [c \in Cards |-> UrlVideo]
    /\ poster = [c \in Cards |-> "shown"]
    /\ supportsIO /\ ~prefersReduced

OrchNext ==
    \/ InitStarts
    \/ InitResumes
    \/ \E d \in Increments : LoaderTick(d)
    \/ HideFires
    \/ WindowError
    \/ \E lib \in Required : LibraryLoads(lib)
    \/ TimeoutFires
    \/ Poll

\* the document becomes ready, the timers of the page run and the await resumes;
\* whether a library loads or a script raises an error is up to the page
OrchSpec ==
    /\ OrchInit
    /\ [][OrchNext]_vars
    /\ WF_vars(InitStarts)
    /\ WF_vars(InitResumes)
    /\ WF_vars(HideFires)
    /\ WF_vars(TimeoutFires)
    /\ WF_vars(Poll)

\* ------------------------------------------ AudioEngine and the music toggle
\* A click on #music-toggle runs `await this.audioEngine.start()` and then sets
\* the toggle from musicEnabled.  A call is at "tone" while start() awaits
\* Tone.start(), at "ui" once start() has returned and the handler's
\* continuation is queued, and "done" after it; ok says that start() ended
\* without an error.
MaxClicks == 3

Call(pc, ok) == [pc |-> pc, ok |-> ok]

\* the end of start() whose `this.stop();` is not followed by `return;`
ToggleMusicNoReturn(enabled, fails) == ~fails

\* the end of start(): stop() and return when the music is on, else the loops'
\* start-up, which sets musicEnabled unless it throws
ToggleMusic(enabled, fails) == IF enabled THEN FALSE ELSE ~fails

\* the click listener of initMusicToggle, up to its await; the microtasks of
\* earlier handlers have run before the event is dispatched
MusicClick ==
    /\ Len(calls) < MaxClicks
    /\ \A k \in 1..Len(calls) : calls[k].pc # "ui"
    /\ IF audioStarted
          THEN \E fails \in BOOLEAN :
                 /\ musicEnabled' = ToggleMusic(musicEnabled, fails)
                 /\ calls' = Append(calls, Call("ui", musicEnabled \/ ~fails))
          ELSE /\ calls' = Append(calls, Call("tone", FALSE))
               /\ UNCHANGED musicEnabled
    /\ UNCHANGED <<audioStarted, initAudioRuns, ariaPressed, label>>
    /\ UNCHANGED <<embedVars, depVars, orchVars, chartVars, playVars>>

\* Tone.start() of call k resolves: initAudio(), audioStarted, then the music
ToneStartResolves(k) ==
    /\ calls[k].pc = "tone"
    /\ initAudioRuns' = initAudioRuns + 1
    /\ audioStarted' = TRUE
    /\ \E fails \in BOOLEAN :
         /\ musicEnabled' = ToggleMusic(musicEnabled, fails)
         /\ calls' = [calls EXCEPT ![k] = Call("ui", musicEnabled \/ ~fails)]
    /\ UNCHANGED <<ariaPressed, label>>
    /\ UNCHANGED <<embedVars, depVars, orchVars, chartVars, playVars>>

\* Tone.start() of call k rejects: console.error and return
ToneStartRejects(k) ==
    /\ calls[k].pc = "tone"
    /\ calls' = [calls EXCEPT ![k] = Call("ui", FALSE)]
    /\ UNCHANGED <<audioStarted, musicEnabled, initAudioRuns, ariaPressed, label>>
    /\ UNCHANGED <<embedVars, depVars, orchVars, chartVars, playVars>>

\* the click listener after its await: the toggle is set from musicEnabled
HandlerResumes(k) ==
    /\ calls[k].pc = "ui"
    /\ calls' = [calls EXCEPT ![k].pc = "done"]
    /\ ariaPressed' = IF musicEnabled THEN "true" ELSE "false"
    /\ label' = IF musicEnabled THEN "Music On" ELSE "Music Off"
    /\ UNCHANGED <<audioStarted, musicEnabled, initAudioRuns>>
    /\ UNCHANGED <<embedVars, depVars, orchVars, chartVars, playVars>>

\* the page of app.js once UIController.init() has bound the toggle
AudioInit ==
    /\ Init
    /\ script = "app"
    /\ url = [c \in Cards |-> UrlVideo]
    /\ poster = [c \in Cards |-> "shown"]
    /\ supportsIO /\ ~prefersReduced

AudioNext ==
    \/ MusicClick
    \/ \E k \in 1..Len(calls) : ToneStartResolves(k)
    \/ \E k \in 1..Len(calls) : ToneStartRejects(k)
    \/ \E k \in 1..Len(calls) : HandlerResumes(k)

AudioSpec == AudioInit /\ [][AudioNext]_vars

\* --------------------------------------- ChartManager, the anxiety chart
\* this.anxietyMetrics, by key
AnxietyMetrics == <<"tradwife", "measles", "unemployment", "eggs", "gold", "beef">>

MetricKeys == {AnxietyMetrics[k] : k \in 1..Len(AnxietyMetrics)}

RECURSIVE TracesFrom(_, _)
TracesFrom(active, k) ==
    IF k > Len(AnxietyMetrics) THEN <<>>
    ELSE (IF active[AnxietyMetrics[k]] THEN <<AnxietyMetrics[k]>> ELSE <<>>)
           \o TracesFrom(active, k + 1)

\* the traces without the filter on activeMetrics
TracesUnfiltered(active) == AnxietyMetrics

\* this.anxietyMetrics.filter(m => this.activeMetrics[m.key]).map(...)
Traces(active) == TracesFrom(active, 1)

\* initAnxietyChart(): every flag true, a button per metric, the first plot;
\* app.js gives the buttons aria-pressed, part_000 the class active alone
InitAnxietyChart ==
    /\ ~chartReady
    /\ chartReady' = TRUE
    /\ activeMetrics' = [m \in MetricKeys |-> TRUE]
    /\ metricActive' = [m \in MetricKeys |-> TRUE]
    /\ metricPressed' = [m \in MetricKeys |-> script = "app"]
    /\ plotted' = Traces(activeMetrics')
    /\ UNCHANGED <<embedVars, depVars, orchVars, audioVars, playVars>>

\* the click listener of metric m's button: app.js reads the button's
\* aria-pressed, part_000 negates the flag and toggles the class
MetricClick(m) ==
    /\ chartReady
    /\ IF script = "app"
          THEN LET isActive == metricPressed[m]
               IN /\ metricPressed' = [metricPressed EXCEPT ![m] = ~isActive]
                  /\ activeMetrics' = [activeMetrics EXCEPT ![m] = ~isActive]
                  /\ metricActive' = [metricActive EXCEPT ![m] = ~isActive]
          ELSE /\ activeMetrics' = [activeMetrics EXCEPT ![m] = ~activeMetrics[m]]
               /\ metricActive' = [metricActive EXCEPT ![m] = ~metricActive[m]]
               /\ UNCHANGED metricPressed
    /\ plotted' = Traces(activeMetrics')
    /\ UNCHANGED chartReady
    /\ UNCHANGED <<embedVars, depVars, orchVars, audioVars, playVars>>

\* the page of either ChartManager before its init()
ChartInit ==
    /\ Init
    /\ script \in {"app", "part_000"}
    /\ url = [c \in Cards |-> UrlVideo]
    /\ poster = [c \in Cards |-> "shown"]
    /\ supportsIO /\ ~prefersReduced

ChartNext ==
    \/ InitAnxietyChart
    \/ \E m \in MetricKeys : MetricClick(m)

ChartSpec == ChartInit /\ [][ChartNext]_vars

\* ------------------------------ app.js, hydrateTikTok's play/pause observer
\* hydrateTikTok observes the iframe it attached.  An observer reports changes,
\* so the entries for one iframe alternate; a callback can get several of them
\* when its task ran late.  The animation-frame callbacks of a frame run before
\* that frame's observations reach a callback, so a callback finds none pending.
MaxEntries == 3

Blank == <<"about:blank">>

\* the entries of one callback: n of them, alternating from `first`
EntryRun(first, n) == [i \in 1..n |-> IF i % 2 = 1 THEN first ELSE ~first]

\* for (const e of entries): entering reloads the src it reads (if 2 s have
\* passed), which leaves the src as it is; leaving saves the src it reads, sets
\* about:blank and requests a frame that sets the saved one.  P is the iframe's
\* src and the frames requested.
RECURSIVE PlayEntries(_, _, _, _)
PlayEntries(P, c, es, i) ==
    IF i > Len(es) THEN P
    ELSE IF es[i] THEN PlayEntries(P, c, es, i + 1)
    ELSE PlayEntries([src |-> Blank, raf |-> Append(P.raf, <<c, P.src>>)],
                     c, es, i + 1)

\* the callback of card c's iframe observer with the entries es
PlayCallback(c, es) ==
    /\ script = "app"
    /\ <<c, 1>> \in frame[c]
    /\ rafQueue = <<>>
    /\ seen[c] # "none" => es[1] = (seen[c] = "out")
    /\ LET P == PlayEntries([src |-> iframes[<<c, 1>>].src, raf |-> rafQueue], c, es, 1)
       IN /\ iframes' = [iframes EXCEPT ![<<c, 1>>].src = P.src]
          /\ rafQueue' = P.raf
    /\ seen' = [seen EXCEPT ![c] = IF es[Len(es)] THEN "in" ELSE "out"]
    /\ UNCHANGED <<const, embeds, tiktokEmbed, observers, timers, poster, frame,
                   fallback, handlers, hydrated, uncaught, setups>>
    /\ UNCHANGED <<depVars, orchVars, audioVars, chartVars>>

\* requestAnimationFrame(() => { iframe.src = s; }), the callbacks from q[i] on
RECURSIVE RunFrames(_, _, _)
RunFrames(ifr, q, i) ==
    IF i > Len(q) THEN ifr
    ELSE RunFrames([ifr EXCEPT ![<<q[i][1], 1>>].src = q[i][2]], q, i + 1)

\* the next frame runs every callback requested, in the order of the requests
AnimationFrame ==
    /\ rafQueue # <<>>
    /\ iframes' = RunFrames(iframes, rafQueue, 1)
    /\ rafQueue' = <<>>
    /\ UNCHANGED <<const, embeds, tiktokEmbed, observers, timers, poster, frame,
                   fallback, handlers, hydrated, uncaught, setups, seen>>
    /\ UNCHANGED <<depVars, orchVars, audioVars, chartVars>>

\* the page of initTikTok with cards that hydrate
PlayInit ==
    /\ Init
    /\ script = "app"
    /\ url \in [Cards -> {UrlVideo, UrlQuery}]
    /\ poster = [c \in Cards |-> "shown"]
    /\ supportsIO

PlayNext ==
    \/ Setup
    \/ \E b \in Batches : ObserverCallback(b)
    \/ \E c \in Cards : PosterClick(c)
    \/ \E c \in Cards, first \in BOOLEAN, n \in 1..MaxEntries :
         PlayCallback(c, EntryRun(first, n))
    \/ AnimationFrame

PlaySpec == PlayInit /\ [][PlayNext]_vars

\* --------------------------------------------------- what a Placeholder is
\* the cards the variant handles: the IIFE handles #tiktok-card alone
Placeholders == IF script = "card" THEN {1} ELSE Cards

ClassBased == script \in {"part_002", "part_000"}

HydratorsIn(S, c) == {e \in 1..Len(S.embeds) : S.embeds[e].container = c}
Hydrators(c) == HydratorsIn(Cur, c)

\* recorded as hydrated: isLoaded of a hydrator of the card, or the hydrated set
RecordedIn(S, c) ==
    IF ClassBased THEN \E e \in HydratorsIn(S, c) : S.embeds[e].isLoaded
    ELSE c \in S.hydrated
Recorded(c) == RecordedIn(Cur, c)

\* unhydrated | hydrated | error, read off the record and the container
StateIn(S, c) ==
    IF S.fallback[c].kind # "none" THEN "error"
    ELSE IF RecordedIn(S, c) THEN "hydrated" ELSE "unhydrated"
StateOf(c) == StateIn(Cur, c)

\* id is a path segment of src: after a "/", before the query or the end
Carries(src, id) ==
    \E k \in 2..Len(src) :
        /\ src[k - 1] = "/"
        /\ k + Len(id) - 1 <= Len(src)
        /\ SubSeq(src, k, k + Len(id) - 1) = id
        /\ (k + Len(id) <= Len(src) => src[k + Len(id)] = "?")

\* one call of the variant's load on card c: every result it can have (one per
\* hydrator of the card in the class-based variants)
LoadResults(c) ==
    IF ClassBased THEN {LoadOp(Cur, e) : e \in Hydrators(c)}
    ELSE {HydrateTikTok(Cur, c)}

\* a step that is one call of the variant's load on card c
LoadCall(c) ==
    \/ \E e \in Hydrators(c) : TimerFire(e) \/ CallLoad(e)
    \/ Len(handlers[c]) = 1 /\ PosterClick(c)
    \/ /\ script = "part_002" \/ (script = "app" /\ ~prefersReduced)
       /\ ObserverCallback([x \in {c} |-> TRUE])

\* ------------------------------------------------------------------ claims
\* a URL of the shape .../video/<digits>, with or without a query string
WellFormed(u) ==
    \E k \in 1..Len(u) :
        /\ k + 2 <= Len(u)
        /\ u[k] = "video" /\ u[k + 1] = "/" /\ u[k + 2] \in Digits
        /\ \A j \in (k + 3)..Len(u) : u[j] # "/" /\ (j = k + 3 => u[j] = "?")

\* C1: for an unhydrated Placeholder whose URL has the shape .../video/<digits>
\* (in app.js: with its poster markup in place), one load() ends hydrated with
\* exactly one iframe in the container, and the iframe's URL carries those
\* digits.
C1_LoadHydrates ==
    \A c \in Cards :
      (/\ script # "card"
       /\ url[c] # Absent
       /\ WellFormed(url[c])
       /\ StateOf(c) = "unhydrated"
       /\ script = "app" => poster[c] = "shown")
      => \A S \in LoadResults(c) :
            /\ StateIn(S, c) = "hydrated"
            /\ Cardinality(S.frame[c]) = 1
            /\ \A i \in S.frame[c] :
                  Carries(S.iframes[i].src, MatchVideoId(url[c]))

\* a Placeholder with such a URL after its load(): hydrated, one iframe with
\* the identifier
C1_Witness ==
    \E c \in Cards :
        /\ script # "card"
        /\ url[c] # Absent
        /\ WellFormed(url[c])
        /\ StateOf(c) = "hydrated"
        /\ \E i \in frame[c] :
              /\ frame[c] = {i}
              /\ Carries(iframes[i].src, MatchVideoId(url[c]))

\* C2: a Placeholder whose URL yields no identifier (neither video/<digits>
\* nor a last path segment) is, after load(), in error, with no iframe in the
\* container and with the fallback link to the original URL shown.
C2_NoIdShowsFallback ==
    [][\A c \in Cards :
         (/\ script # "card"
          /\ url[c] # Absent
          /\ MatchVideoId(url[c]) = <<>>
          /\ SplitPopId(url[c]) = <<>>
          /\ StateOf(c) = "unhydrated"
          /\ poster[c] = "shown"
          /\ LoadCall(c))
         => (/\ StateOf(c) = "error"
             /\ frame[c] = {}
             /\ fallback[c] = LinkFallback(url[c]))']_vars

\* load() on what is already hydrated returns the state it was given
LoadIsNoOp ==
    /\ ClassBased => \A e \in 1..Len(embeds) :
                        embeds[e].isLoaded => LoadOp(Cur, e) = Cur
    /\ script = "app" => \A c \in hydrated : HydrateTikTok(Cur, c) = Cur
    /\ script = "card" => (1 \in hydrated => CardHydrate(Cur) = Cur)

\* C3: load() on a hydrated Placeholder changes nothing, and no poster click,
\* visibility event, timer or direct load() changes the iframes in the
\* container of a hydrated Placeholder, their identity or its state.
C3_LoadIdempotent ==
    [][/\ LoadIsNoOp
       /\ \A c \in Placeholders :
            (/\ StateOf(c) = "hydrated"
             /\ \/ \E b \in Batches : ObserverCallback(b)
                \/ \E d \in Cards : PosterClick(d)
                \/ \E e \in Hydrators(c) : TimerFire(e) \/ CallLoad(e))
            => /\ frame'[c] = frame[c]
               /\ \A i \in frame[c] : iframes'[i] = iframes[i]
               /\ StateOf(c)' = "hydrated"]_vars

\* C4: for a hydrated hydrator, unload() then load() ends hydrated, with
\* exactly one iframe in the container, an element that did not exist before.
C4_RoundTrip ==
    script = "part_002" =>
      \A e \in 1..Len(embeds) :
        embeds[e].isLoaded =>
          LET c == embeds[e].container
              S1 == UnloadOp(Cur, e)
              S2 == LoadOp(S1, e)
              new == S2.embeds[e].iframe
          IN /\ ~S1.embeds[e].isLoaded
             /\ S1.frame[c] = {}
             /\ S2.embeds[e].isLoaded
             /\ StateIn(S2, c) = "hydrated"
             /\ S2.frame[c] = {new}
             /\ new # Null
             /\ new # embeds[e].iframe
             /\ new \notin DOMAIN iframes
             /\ S2.iframes[new].src # <<>>

\* a hydrator that is hydrated for the second time, so after an unload()
C4_Witness ==
    \E e \in 1..Len(embeds) :
        /\ embeds[e].isLoaded
        /\ embeds[e].made = 2
        /\ frame[embeds[e].container] = {<<e, 2>>}

\* C5: the container holds exactly one iframe when the Placeholder is recorded
\* as hydrated (isLoaded, or the hydrated set) and none otherwise.
C5_OneEmbedIffHydrated ==
    (script # "card" /\ uncaught = {}) =>
      \A c \in Cards :
        Cardinality(frame[c]) = IF Recorded(c) THEN 1 ELSE 0

\* a Placeholder whose URL has the shape .../video/<digits>
Loadable(c) ==
    /\ c \in Placeholders
    /\ url[c] # Absent
    /\ WellFormed(url[c])

C7_AtMostOneHydrator ==
    [][\A c \in Cards :
         /\ Cardinality(Hydrators(c))' <= 1
         /\ (Recorded(c) /\ frame[c] # {}) => frame'[c] \subseteq frame[c]]_vars

\* an iframe of a class-based variant is live until its error event
Live(i) == ClassBased => iframes[i].armed

\* C8: an iframe error moves the Placeholder to error, with the fallback and
\* its link to the source URL in the container; and no Placeholder is recorded
\* as hydrated while its container shows neither a live iframe nor the
\* fallback with its link.
C8_ErrorShowsFallback ==
    uncaught = {} =>
    /\ \A i \in DOMAIN iframes :
         (Attached(i) /\ iframes[i].armed) =>
           LET S == ErrorOp(Cur, i)
               c == CHOOSE c \in Cards : i \in frame[c]
           IN /\ StateIn(S, c) = "error"
              /\ S.frame[c] = {}
              /\ S.fallback[c] = LinkFallback(url[c])
    /\ \A c \in Placeholders :
         Recorded(c) => \/ \E i \in frame[c] : Live(i)
                        \/ fallback[c].kind = "link"

\* what a visibility callback leaves of card d
View(S, d) ==
    <<S.frame[d], [i \in S.frame[d] |-> S.iframes[i]], S.fallback[d], S.poster[d],
      RecordedIn(S, d), HydratorsIn(S, d)>>

\* C9: when the hydration of one entry of a visibility callback fails, the
\* other cards of the batch end as if the failing entry were not in it.
C9_IndependentDegrade ==
    [][\A b \in Batches :
         ObserverCallback(b) =>
           \A c \in DOMAIN b :
             LET S1 == EntryOp(Cur, c, b[c])
                 rest == [d \in DOMAIN b \ {c} |-> b[d]]
             IN (b[c] /\ (S1.thrown \/ StateIn(S1, c) # "hydrated")) =>
                  \A d \in DOMAIN rest :
                     View(Cur, d)' = View(CallbackOp(Cur, rest), d)]_vars

\* C10: load() returns normally whatever the source URL is, an absent
\* attribute included (for hydrateTikTok: on a card that has its poster, in a
\* browser that has IntersectionObserver).
C10_LoadNeverThrows ==
    [][\A c \in Cards :
         (/\ script # "card"
          /\ script = "app" => (supportsIO /\ poster[c] # "none")
          /\ LoadCall(c))
         => \A S \in LoadResults(c) : ~S.thrown]_vars

\* C18: waitForDependencies() does not stay pending: while pending, a poll
\* that finds the four libraries defined resolves it, which only a poll before
\* the timeout does, the timeout rejects it, a settled promise stays as it is,
\* and a pending promise is eventually resolved or rejected.
C18_WaitSettles ==
    /\ [][/\ (promise = "pending" /\ Poll /\ AllLoaded) => promise' = "resolved"
          /\ (promise = "pending" /\ TimeoutFires) => promise' = "rejected"
          /\ (promise = "pending" /\ promise' = "resolved")
               => (Poll /\ AllLoaded /\ timeout)
          /\ (promise = "pending" /\ promise' = "rejected") => TimeoutFires
          /\ promise \in {"resolved", "rejected"} => promise' = promise]_vars
    /\ (promise = "pending") ~> (promise \in {"resolved", "rejected"})

\* the libraries did not all load in time and the timeout has rejected
C18_Witness ==
    /\ promise = "rejected"
    /\ ~timeout
    /\ ~AllLoaded
    /\ (clock + 1) * IntervalMs >= TimeoutMs

\* C11: once the setup has run, every unhydrated Placeholder that shows its
\* poster has a click handler on it, and the click ends as a load() of that
\* Placeholder ends, whether or not the Placeholder was ever visible.
C11_ClickBound ==
    (script # "card" /\ setups > 0 /\ uncaught = {}) =>
      \A c \in Cards :
        (StateOf(c) = "unhydrated" /\ poster[c] = "shown") =>
          /\ handlers[c] # <<>>
          /\ \E S \in LoadResults(c) : ClickOp(Cur, c) = Catch(S, "load")

\* C12: with IntersectionObserver and without reduced motion, the visibility
\* event that reports an unhydrated Placeholder with a well-formed URL and its
\* poster as intersecting leaves it hydrated or in error.
C12_FirstVisibilityLoads ==
    [][\A c \in Placeholders :
         (/\ supportsIO /\ ~prefersReduced
          /\ url[c] # Absent /\ WellFormed(url[c])
          /\ poster[c] = "shown"
          /\ StateOf(c) = "unhydrated"
          /\ ObserverCallback([x \in {c} |-> TRUE]))
         => StateOf(c)' \in {"hydrated", "error"}]_vars

\* C13, as the spec has it: the visibility event that reports a container as
\* intersecting ends with the container no longer observed.
C13_OneShot ==
    [][\A b \in Batches :
         ObserverCallback(b) => \A c \in DOMAIN b : b[c] => observers'[c] = 0]_vars

\* C13, amended: in part_000 and in the #tiktok-card IIFE the callback that
\* gets a container's intersecting entry ends its observation for good; in
\* part_002 and in initTikTok a container once observed stays observed.
C13_OneShotWhereUnobserved ==
    [][\A c \in Cards :
         /\ (/\ script \in {"part_000", "card"}
             /\ \E b \in Batches : c \in DOMAIN b /\ b[c] /\ ObserverCallback(b))
            => observers'[c] = 0
         /\ (script \in {"part_000", "card"} /\ setups > 0 /\ observers[c] = 0)
            => observers'[c] = 0
         /\ script \in {"part_002", "app"} => observers'[c] >= observers[c]]_vars

\* part_000 has consumed the first intersecting entry of a container
C13_Witness ==
    /\ script = "part_000"
    /\ \E c \in Cards : tiktokEmbed[c] # 0 /\ observers[c] = 0

\* C14: the state of a Placeholder with one hydrator changes only from
\* unhydrated to hydrated, from hydrated to unhydrated by unload(), and to
\* error (from unhydrated, or from hydrated when its iframe fails to load);
\* error is never left.
C14_Transitions ==
    [][\A c \in Cards :
         (script # "card" /\ Cardinality(Hydrators(c))' <= 1) =>
           \/ StateOf(c)' = StateOf(c)
           \/ StateOf(c) = "unhydrated" /\ StateOf(c)' = "hydrated"
           \/ /\ StateOf(c) = "hydrated" /\ StateOf(c)' = "unhydrated"
              /\ \E e \in Hydrators(c) : CallUnload(e)
           \/ StateOf(c) = "unhydrated" /\ StateOf(c)' = "error"
           \/ /\ StateOf(c) = "hydrated" /\ StateOf(c)' = "error"
              /\ \E i \in frame[c] : IframeError(i)]_vars

\* C15: unload() on the hydrator of a Placeholder that is not hydrated
\* (unhydrated, or in error) changes nothing: container, iframe reference,
\* state and click handlers stay as they are.
C15_UnloadNoOp ==
    script = "part_002" =>
      \A e \in 1..Len(embeds) :
        LET c == embeds[e].container
        IN (Cardinality(Hydrators(c)) <= 1 /\ StateOf(c) # "hydrated")
             => UnloadOp(Cur, e) = Cur

\* C16: once a Placeholder is in error, no visibility event, timer or setup
\* (DOMContentLoaded, pageshow) gives it an iframe: it stays in error with the
\* same fallback shown.
C16_NoRetry ==
    [][\A c \in Placeholders :
         (/\ StateOf(c) = "error"
          /\ \/ Setup
             \/ \E b \in Batches : ObserverCallback(b)
             \/ \E e \in 1..Len(embeds) : TimerFire(e))
         => /\ StateOf(c)' = "error"
            /\ frame'[c] = {}
            /\ fallback'[c] = fallback[c]]_vars

\* src is https://www.tiktok.com/embed/v2/<segment>, then at most a query
EmbedForm(src) ==
    LET n == Len(EmbedBase)
    IN /\ Len(src) > n
       /\ SubSeq(src, 1, n) = EmbedBase
       /\ src[n + 1] \notin {"/", "?"}
       /\ \A j \in (n + 2)..Len(src) : src[j] # "/" /\ (j = n + 2 => src[j] = "?")

\* C17: every iframe a hydration path has produced points at
\* https://www.tiktok.com/embed/v2/<videoId>, the identifier being the path
\* segment right after embed/v2/, followed by query parameters only.
C17_EmbedUrlForm ==
    /\ \A i \in DOMAIN iframes : EmbedForm(iframes[i].src)
    /\ (script = "card" /\ 1 \in hydrated)
         => EmbedForm(CardEmbedUrl(MatchVideoId(url[1])))

\* C19: unload() on a hydrated hydrator clears the iframe's src, drops the
\* reference, puts the poster markup in the container, leaves the hydrator (and
\* the Placeholder, when no other hydrator of it is loaded) unhydrated, and
\* binds one click handler to the new poster: a click then is one load().
C19_UnloadRestoresPoster ==
    script = "part_002" =>
      \A e \in 1..Len(embeds) :
        (embeds[e].isLoaded /\ embeds[e].iframe # Null) =>
          LET c == embeds[e].container
              i == embeds[e].iframe
              S1 == UnloadOp(Cur, e)
              S2 == ClickOp(S1, c)
          IN /\ S1.iframes[i].src = <<>>
             /\ S1.embeds[e].iframe = Null
             /\ S1.frame[c] = {}
             /\ S1.fallback[c] = NoFallback
             /\ S1.poster[c] = "shown"
             /\ ~S1.embeds[e].isLoaded
             /\ (\A d \in Hydrators(c) \ {e} : ~embeds[d].isLoaded)
                  => StateIn(S1, c) = "unhydrated"
             /\ S1.handlers[c] = <<e>>
             /\ S2 = LoadOp(S1, e)
             /\ S2.embeds[e].made = embeds[e].made + 1
             /\ S2.frame[c] = {S2.embeds[e].iframe}

\* a hydrator after its unload(): the poster is back, with its one handler
C19_Witness ==
    \E e \in 1..Len(embeds) :
        /\ ~embeds[e].isLoaded
        /\ embeds[e].made >= 1
        /\ embeds[e].iframe = Null
        /\ poster[embeds[e].container] = "shown"
        /\ frame[embeds[e].container] = {}
        /\ handlers[embeds[e].container] = <<e>>

\* C20: in part_002 a visibility callback leaves every hydrated Placeholder it
\* reports as not intersecting as it was (still hydrated, same iframe, same
\* hydrators), and no visibility callback takes a hydrator from loaded to
\* unloaded.
C20_ExitLeavesHydrated ==
    script = "part_002" =>
      \A b \in Batches :
        (\A c \in DOMAIN b : observers[c] > 0) =>
          LET S == CallbackOp(Cur, b)
          IN /\ \A c \in DOMAIN b :
                  (~b[c] /\ StateOf(c) = "hydrated") =>
                    /\ View(S, c) = View(Cur, c)
                    /\ StateIn(S, c) = "hydrated"
                    /\ \A e \in Hydrators(c) : S.embeds[e] = embeds[e]
             /\ \A e \in 1..Len(embeds) : embeds[e].isLoaded => S.embeds[e].isLoaded

\* an observed Placeholder of part_002 that its observed hydrator has hydrated
C20_Witness ==
    /\ script = "part_002"
    /\ \E c \in Cards :
         /\ observers[c] > 0
         /\ embeds[tiktokEmbed[c]].isLoaded
         /\ StateOf(c) = "hydrated"
         /\ frame[c] = {embeds[tiktokEmbed[c]].iframe}

\* C21: with the reduced-motion preference set, no step that is a visibility
\* callback, a timer or the setup itself takes a Placeholder to hydrated: only
\* a click on its poster does.
C21_ReducedMotionClickOnly ==
    [][\A c \in Placeholders :
         (/\ prefersReduced
          /\ StateOf(c) # "hydrated"
          /\ StateOf(c)' = "hydrated")
         => /\ ~ \E b \in Batches : ObserverCallback(b)
            /\ ~ \E e \in 1..Len(embeds) : TimerFire(e)
            /\ ~ Setup]_vars

\* C22: however init() ends (modules initialised, the wait rejected, a module's
\* init() threw), the loader becomes hidden and stays hidden.
C22_LoaderHidden == <>[]loaderHidden

\* init() has ended on a rejected wait and the loader is hidden
C22_Witness == phase = "rejected" /\ promise = "rejected" /\ loaderHidden

\* C23: a module's init() has been called only with all four libraries defined
\* on window, and with the wait rejected no module's init() has been called.
C23_InitAfterLibraries ==
    /\ modulesInit # {} => AllLoaded
    /\ promise = "rejected" => modulesInit = {}
    /\ phase = "rejected" => modulesInit = {}

\* init() has called every module's init(), after the wait resolved
C23_Witness ==
    /\ phase = "initialised"
    /\ promise = "resolved"
    /\ modulesInit = {Modules[k] : k \in 1..Len(Modules)}

\* C26: once the promise of waitForDependencies has settled it stays as it
\* settled, neither the polling interval nor the timeout is still set, and no
\* poll runs.
C26_NoTimerAfterSettle ==
    /\ [](promise \in {"resolved", "rejected"} => (~checkInterval /\ ~timeout))
    /\ [][(promise \in {"resolved", "rejected"}) => (promise' = promise /\ ~Poll)]_vars

\* C27: while init() has not ended, a tick of the loader's progress timer
\* neither completes the loader nor schedules hiding it and no hide timer
\* fires; and complete() runs at most once.
C27_HiddenOnlyAfterInit ==
    /\ [][(phase \in {"boot", "waiting"}) =>
            /\ (\E d \in Increments : LoaderTick(d)) =>
                  (hideTimers' = hideTimers /\ completes' = completes)
            /\ ~HideFires]_vars
    /\ [](completes <= 1)

\* C24: over any interleaving of start() calls, initAudio() has run at most
\* once.
C24_InitAudioOnce == initAudioRuns <= 1

\* the step in which the start() of call k returns
StartReturns(k) ==
    /\ k \in 1..Len(calls')
    /\ calls'[k].pc = "ui"
    /\ k \in 1..Len(calls) => calls[k].pc = "tone"

MetricIndex(m) == CHOOSE k \in 1..Len(AnxietyMetrics) : AnxietyMetrics[k] = m

\* C28: after any clicks on the metric buttons the plotted traces are exactly
\* the metrics whose flag is true, each once and in the order of
\* anxietyMetrics; every button's state equals its metric's flag; and a click
\* on one button negates that metric's flag and leaves the others.
C28_TracesMatchFlags ==
    /\ [](chartReady =>
            /\ {plotted[i] : i \in 1..Len(plotted)} = {m \in MetricKeys : activeMetrics[m]}
            /\ \A i, j \in 1..Len(plotted) :
                  i < j => MetricIndex(plotted[i]) < MetricIndex(plotted[j])
            /\ \A m \in MetricKeys :
                  /\ metricActive[m] = activeMetrics[m]
                  /\ script = "app" => metricPressed[m] = activeMetrics[m])
    /\ [][\A m \in MetricKeys :
            MetricClick(m) =>
              activeMetrics' = [activeMetrics EXCEPT ![m] = ~activeMetrics[m]]]_vars

\* buttons have been clicked: two metrics are off, four traces are plotted
C28_Witness ==
    /\ chartReady
    /\ ~activeMetrics["measles"] /\ ~activeMetrics["gold"]
    /\ plotted = <<"tradwife", "unemployment", "eggs", "beef">>

\* C29: with no animation-frame callback left to run, the iframe of a hydrated
\* card of app.js has the embed URL as its src.
C29_SrcRestored ==
    \A c \in Cards :
      (script = "app" /\ <<c, 1>> \in frame[c] /\ rafQueue = <<>>)
      => iframes[<<c, 1>>].src = BuildIframeUrl(MatchVideoId(url[c]))

====
